---------------------------- MODULE Spec2Model ----------------------------
(***************************************************************************)
(* Verification model of two fragments of DL-Art-School:                   *)
(*   codes/models/audio/tts/tacotron2/text/cleaners.py  (text cleaners)    *)
(*   codes/models/networks.py                           (network factory)  *)
(*                                                                         *)
(* Text is a sequence of Unicode code points (decimal integers).           *)
(* Model identifiers and checkpoint keys are sequences of one-character    *)
(* strings, so that substring, prefix and slice are computed.              *)
(***************************************************************************)
EXTENDS Integers, Sequences, FiniteSets, TLC

VARIABLES
    entry,            \* cleaners.py: the function that was called
    input,            \* cleaners.py: the text argument of the call
    text,             \* cleaners.py: the local variable `text`
    pc,               \* cleaners.py: source line of the next statement, 0 = returned
    call,             \* networks.py: the call (function and arguments)
    npc,              \* networks.py: position inside the called function
    net,              \* networks.py: netG / netD / netF / net, or None
    built,            \* networks.py: the network as its constructor left it
    outcome,          \* networks.py: "running", "returned" or the exception raised
    load_net,         \* networks.py: result of torch.load, or None
    load_net_clean,   \* networks.py: the OrderedDict given to load_state_dict
    steps             \* networks.py: the calls made on the network, in order

textvars == <<entry, input, text, pc>>
netvars == <<call, npc, net, built, outcome, load_net, load_net_clean, steps>>
vars == <<textvars, netvars>>

None == "None"

(***************************************************************************)
(*                           cleaners.py                                   *)
(***************************************************************************)

\* Character classes of Python's str / re for the code points of the model.
\* str.isspace / regex \s
IsSpace(c) ==
    c \in ({9, 10, 11, 12, 13, 28, 29, 30, 31, 32, 133, 160, 5760, 8232, 8233, 8239, 8287, 12288}
           \cup (8192..8202))

\* regex \w on str patterns: alphanumeric code points and the underscore
IsWordChar(c) ==
    \/ c \in 48..57 \/ c \in 65..90 \/ c = 95 \/ c \in 97..122
    \/ (c \in 192..255 /\ c \notin {215, 247})
    \/ c \in 1568..1610 \/ c \in 1632..1641 \/ c \in 1646..1647
    \/ c \in 1649..1747 \/ c = 1749 \/ c \in 1774..1788
    \/ c \in 19968..40959

\* _urdu_regex = [؀-ۿ]+  and  _english_regex = [a-zA-Z]+ , used with search()
urdu_regex_search(word) == \E i \in 1..Len(word) : word[i] \in 1536..1791
english_regex_search(word) == \E i \in 1..Len(word) : word[i] \in (65..90) \cup (97..122)

\* (pattern without the two \b, replacement), in table order
abbreviations_urdu == <<
    << <<1580, 1606, 1575, 1576>>,
       <<1580, 1606, 1575, 1576, 32, 1605, 1581, 1578, 1585, 1605>> >>,
    << <<1672, 1575, 1705, 1657, 1585>>,
       <<1672, 1575, 1705, 1657, 1585>> >>,
    << <<1605, 1581, 1578, 1585, 1605, 1729>>,
       <<1605, 1581, 1578, 1585, 1605, 1729>> >>,
    << <<1662, 1585, 1608, 1601>>,
       <<1662, 1585, 1608, 1601, 1740, 1587, 1585>> >>,
    << <<1575, 1740, 1605, 32, 1575, 1740, 1604, 32, 1575, 1746>>,
       <<1585, 1705, 1606, 32, 1589, 1608, 1576, 1575, 1574, 1740, 32,
         1575, 1587, 1605, 1576, 1604, 1740>> >>,
    << <<1575, 1740, 1605, 32, 1575, 1740, 1606, 32, 1575, 1746>>,
       <<1585, 1705, 1606, 32, 1602, 1608, 1605, 1740, 32,
         1575, 1587, 1605, 1576, 1604, 1740>> >> >>

\* (urdu_punct, english_punct), in dictionary order
punctuation_replacements == <<
    <<1748, 46>>, <<1548, 44>>, <<1563, 59>>, <<1567, 63>>, <<33, 33>>,
    <<8220, 34>>, <<8221, 34>>, <<8216, 39>>, <<8217, 39>> >>

special_characters ==
    <<1538, 1539, 1551, 1550, 1552, 1553, 1554, 1555, 1556, 1557, 1558, 1559,
      1560, 1561, 1562>>

\* str.replace(old, new) for one-character old and new
ReplaceChar(t, old, new) == [i \in 1..Len(t) |-> IF t[i] = old THEN new ELSE t[i]]

\* str.replace(char, '') for a one-character char
RemoveChar(t, ch) == SelectSeq(t, LAMBDA c : c # ch)

RECURSIVE PunctFrom(_, _)
PunctFrom(t, k) ==
    IF k > Len(punctuation_replacements) THEN t
    ELSE PunctFrom(ReplaceChar(t, punctuation_replacements[k][1],
                               punctuation_replacements[k][2]), k + 1)

normalize_punctuation(t) == PunctFrom(t, 1)

RECURSIVE SpecialFrom(_, _)
SpecialFrom(t, k) ==
    IF k > Len(special_characters) THEN t
    ELSE SpecialFrom(RemoveChar(t, special_characters[k]), k + 1)

remove_special_characters(t) == SpecialFrom(t, 1)

\* regex \b at the gap before position j of t
WordAt(t, k) == k \in 1..Len(t) /\ IsWordChar(t[k])
Boundary(t, j) == WordAt(t, j - 1) # WordAt(t, j)

\* the compiled pattern \b pat \b matches t at position i
MatchAt(pat, t, i) ==
    /\ i + Len(pat) - 1 <= Len(t)
    /\ SubSeq(t, i, i + Len(pat) - 1) = pat
    /\ Boundary(t, i)
    /\ Boundary(t, i + Len(pat))

\* re.sub(regex, replacement, text): leftmost non-overlapping matches
RECURSIVE SubFrom(_, _, _, _)
SubFrom(pat, repl, t, i) ==
    IF i > Len(t) THEN <<>>
    ELSE IF MatchAt(pat, t, i) THEN repl \o SubFrom(pat, repl, t, i + Len(pat))
    ELSE <<t[i]>> \o SubFrom(pat, repl, t, i + 1)

re_sub(pat, repl, t) == SubFrom(pat, repl, t, 1)

RECURSIVE ExpandFrom(_, _)
ExpandFrom(t, k) ==
    IF k > Len(abbreviations_urdu) THEN t
    ELSE ExpandFrom(re_sub(abbreviations_urdu[k][1], abbreviations_urdu[k][2], t), k + 1)

expand_abbreviations_urdu(t) == ExpandFrom(t, 1)

\* numbers_urdu.normalize_numbers_urdu: Urdu numerals to Arabic numerals by table
normalize_numbers_urdu(t) ==
    [i \in 1..Len(t) |-> IF t[i] \in 1776..1785 THEN t[i] - 1776 + 48 ELSE t[i]]

normalize_numbers_mixed(t) == normalize_numbers_urdu(t)

\* unidecode.unidecode, for the code points a non-Urdu word of the model can hold:
\* ASCII is kept, U+00E9 gives "e", U+5317 gives "Bei " (with the trailing space),
\* a code point without a transliteration gives nothing
UnidecodeChar(c) ==
    IF c < 128 THEN <<c>>
    ELSE IF c = 233 THEN <<101>>
    ELSE IF c = 21271 THEN <<66, 101, 105, 32>>
    ELSE <<>>

RECURSIVE unidecode(_)
unidecode(t) == IF t = <<>> THEN <<>> ELSE UnidecodeChar(Head(t)) \o unidecode(Tail(t))

\* str.split(): the maximal runs of non-whitespace
RECURSIVE SplitFrom(_, _, _)
SplitFrom(t, i, cur) ==
    IF i > Len(t) THEN (IF cur = <<>> THEN <<>> ELSE <<cur>>)
    ELSE IF IsSpace(t[i])
         THEN (IF cur = <<>> THEN <<>> ELSE <<cur>>) \o SplitFrom(t, i + 1, <<>>)
         ELSE SplitFrom(t, i + 1, Append(cur, t[i]))

split(t) == SplitFrom(t, 1, <<>>)

\* ' '.join(words)
RECURSIVE join(_)
join(ws) ==
    IF ws = <<>> THEN <<>>
    ELSE IF Len(ws) = 1 THEN ws[1]
    ELSE ws[1] \o <<32>> \o join(Tail(ws))

\* the loop body with the English test made before the Urdu test
process_word_swapped(word) ==
    IF english_regex_search(word) THEN unidecode(word)
    ELSE IF urdu_regex_search(word)
         THEN expand_abbreviations_urdu(normalize_numbers_urdu(word))
         ELSE word

\* the body of the for loop of process_mixed_language, for one word
process_word(word) ==
    IF urdu_regex_search(word)
    THEN expand_abbreviations_urdu(normalize_numbers_urdu(word))
    ELSE IF english_regex_search(word) THEN unidecode(word)
         ELSE word

\* the for loop: processed_words.append(word) for each word in order
RECURSIVE ProcessWords(_, _)
ProcessWords(words, processed_words) ==
    IF words = <<>> THEN processed_words
    ELSE ProcessWords(Tail(words), Append(processed_words, process_word(Head(words))))

process_mixed_language(t) == join(ProcessWords(split(t), <<>>))

\* re.sub(_whitespace_re, ' ', text): every maximal whitespace run becomes one space
RECURSIVE CollapseFrom(_, _)
CollapseFrom(t, i) ==
    IF i > Len(t) THEN <<>>
    ELSE IF IsSpace(t[i])
         THEN (IF i > 1 /\ IsSpace(t[i - 1]) THEN <<>> ELSE <<32>>) \o CollapseFrom(t, i + 1)
         ELSE <<t[i]>> \o CollapseFrom(t, i + 1)

collapse_whitespace(t) == CollapseFrom(t, 1)

\* the pipeline without its remove_special_characters step
humanize_stmt_skip_special(line, t) ==
    CASE line = 109 -> normalize_punctuation(t)
      [] line = 110 -> t
      [] line = 111 -> process_mixed_language(t)
      [] line = 112 -> collapse_whitespace(t)

\* the statement of humanize_mixed_cleaners at a source line, as text := f(text)
humanize_stmt(line, t) ==
    CASE line = 109 -> normalize_punctuation(t)
      [] line = 110 -> remove_special_characters(t)
      [] line = 111 -> process_mixed_language(t)
      [] line = 112 -> collapse_whitespace(t)

\* ---- inputs of the cleaners ----
MaxFrags == 4

Fragments == {
    <<1580, 1606, 1575, 1576>>,
    <<1575, 1740, 1605, 32, 1575, 1740, 1604, 32, 1575, 1746>>,
    <<32>>, <<9>>,
    <<1748>>, <<1538>>, <<1777>>,
    <<97, 98>>, <<233>>, <<21271>>, <<55>> }

RECURSIVE TextsUpTo(_)
TextsUpTo(n) ==
    IF n = 0 THEN {<<>>}
    ELSE LET T == TextsUpTo(n - 1) IN T \cup {t \o f : t \in T, f \in Fragments}

InputTexts == TextsUpTo(MaxFrags)

TextInit ==
    /\ entry \in {"humanize_mixed_cleaners", "process_mixed_language"}
    /\ input \in InputTexts
    /\ text = input
    /\ pc = IF entry = "humanize_mixed_cleaners" THEN 109 ELSE 84
    /\ call = [fn |-> None] /\ npc = "done" /\ net = [ctor |-> None]
    /\ built = [ctor |-> None] /\ outcome = None
    /\ load_net = [path |-> None, items |-> <<>>] /\ load_net_clean = <<>> /\ steps = <<>>

Line109 ==
    /\ pc = 109
    /\ text' = humanize_stmt(109, text)
    /\ pc' = 110
    /\ UNCHANGED <<entry, input, netvars>>

Line110 ==
    /\ pc = 110
    /\ text' = humanize_stmt(110, text)
    /\ pc' = 111
    /\ UNCHANGED <<entry, input, netvars>>

Line111 ==
    /\ pc = 111
    /\ text' = humanize_stmt(111, text)
    /\ pc' = 112
    /\ UNCHANGED <<entry, input, netvars>>

Line112 ==
    /\ pc = 112
    /\ text' = humanize_stmt(112, text)
    /\ pc' = 0
    /\ UNCHANGED <<entry, input, netvars>>

\* process_mixed_language called on its own
ProcessMixedLanguage ==
    /\ pc = 84
    /\ text' = process_mixed_language(text)
    /\ pc' = 0
    /\ UNCHANGED <<entry, input, netvars>>

TextNext == Line109 \/ Line110 \/ Line111 \/ Line112 \/ ProcessMixedLanguage

SpecText == TextInit /\ [][TextNext]_vars

(***************************************************************************)
(*                           networks.py                                   *)
(* Configuration values and constructor arguments are written as the       *)
(* Python literal they stand for ("64", "'not'", "False").                 *)
(***************************************************************************)

\* the string literals define_G tests which_model_G against
G_id == [
    MSRResNet |->
        <<"M", "S", "R", "R", "e", "s", "N", "e", "t">>,
    RRDBNet |->
        <<"R", "R", "D", "B", "N", "e", "t">>,
    RRDBNetBypass |->
        <<"R", "R", "D", "B", "N", "e", "t", "B", "y", "p", "a", "s", "s">>,
    RRDBNetLambda |->
        <<"R", "R", "D", "B", "N", "e", "t", "L", "a", "m", "b", "d", "a">>,
    multires_rrdb |->
        <<"m", "u", "l", "t", "i", "r", "e", "s", "_", "r", "r", "d", "b">>,
    twostep_rrdb |->
        <<"t", "w", "o", "s", "t", "e", "p", "_", "r", "r", "d", "b">>,
    rcan |->
        <<"r", "c", "a", "n">>,
    panet |->
        <<"p", "a", "n", "e", "t">>,
    ConfigurableSwitchedResidualGenerator2 |->
        <<"C", "o", "n", "f", "i", "g", "u", "r", "a", "b", "l", "e", "S", "w", "i", "t", "c", "h", "e", "d", "R", "e", "s", "i", "d", "u", "a", "l", "G", "e", "n", "e", "r", "a", "t", "o", "r", "2">>,
    srg2classic |->
        <<"s", "r", "g", "2", "c", "l", "a", "s", "s", "i", "c">>,
    spsr |->
        <<"s", "p", "s", "r">>,
    spsr_net_improved |->
        <<"s", "p", "s", "r", "_", "n", "e", "t", "_", "i", "m", "p", "r", "o", "v", "e", "d">>,
    spsr_switched |->
        <<"s", "p", "s", "r", "_", "s", "w", "i", "t", "c", "h", "e", "d">>,
    spsr7 |->
        <<"s", "p", "s", "r", "7">>,
    flownet2 |->
        <<"f", "l", "o", "w", "n", "e", "t", "2">>,
    backbone_encoder |->
        <<"b", "a", "c", "k", "b", "o", "n", "e", "_", "e", "n", "c", "o", "d", "e", "r">>,
    backbone_encoder_no_ref |->
        <<"b", "a", "c", "k", "b", "o", "n", "e", "_", "e", "n", "c", "o", "d", "e", "r", "_", "n", "o", "_", "r", "e", "f">>,
    backbone_encoder_no_head |->
        <<"b", "a", "c", "k", "b", "o", "n", "e", "_", "e", "n", "c", "o", "d", "e", "r", "_", "n", "o", "_", "h", "e", "a", "d">>,
    backbone_resnet |->
        <<"b", "a", "c", "k", "b", "o", "n", "e", "_", "r", "e", "s", "n", "e", "t">>,
    tecogen |->
        <<"t", "e", "c", "o", "g", "e", "n">>,
    stylegan2 |->
        <<"s", "t", "y", "l", "e", "g", "a", "n", "2">>,
    srflow |->
        <<"s", "r", "f", "l", "o", "w">>,
    srflow_orig |->
        <<"s", "r", "f", "l", "o", "w", "_", "o", "r", "i", "g">>,
    rrdb_latent_wrapper |->
        <<"r", "r", "d", "b", "_", "l", "a", "t", "e", "n", "t", "_", "w", "r", "a", "p", "p", "e", "r">>,
    rrdb_centipede |->
        <<"r", "r", "d", "b", "_", "c", "e", "n", "t", "i", "p", "e", "d", "e">>,
    rrdb_srflow |->
        <<"r", "r", "d", "b", "_", "s", "r", "f", "l", "o", "w">>,
    mdcn |->
        <<"m", "d", "c", "n">> ]

\* the string literals define_D_net tests which_model_D against
D_id == [
    discriminator_vgg_128 |->
        <<"d", "i", "s", "c", "r", "i", "m", "i", "n", "a", "t", "o", "r", "_", "v", "g", "g", "_", "1", "2", "8">>,
    discriminator_vgg_128_gn |->
        <<"d", "i", "s", "c", "r", "i", "m", "i", "n", "a", "t", "o", "r", "_", "v", "g", "g", "_", "1", "2", "8", "_", "g", "n">>,
    discriminator_vgg_128_gn_checkpointed |->
        <<"d", "i", "s", "c", "r", "i", "m", "i", "n", "a", "t", "o", "r", "_", "v", "g", "g", "_", "1", "2", "8", "_", "g", "n", "_", "c", "h", "e", "c", "k", "p", "o", "i", "n", "t", "e", "d">>,
    stylegan_vgg |->
        <<"s", "t", "y", "l", "e", "g", "a", "n", "_", "v", "g", "g">>,
    discriminator_resnet |->
        <<"d", "i", "s", "c", "r", "i", "m", "i", "n", "a", "t", "o", "r", "_", "r", "e", "s", "n", "e", "t">>,
    discriminator_resnet_50 |->
        <<"d", "i", "s", "c", "r", "i", "m", "i", "n", "a", "t", "o", "r", "_", "r", "e", "s", "n", "e", "t", "_", "5", "0">>,
    resnext |->
        <<"r", "e", "s", "n", "e", "x", "t">>,
    biggan_resnet |->
        <<"b", "i", "g", "g", "a", "n", "_", "r", "e", "s", "n", "e", "t">>,
    discriminator_pix |->
        <<"d", "i", "s", "c", "r", "i", "m", "i", "n", "a", "t", "o", "r", "_", "p", "i", "x">>,
    discriminator_unet |->
        <<"d", "i", "s", "c", "r", "i", "m", "i", "n", "a", "t", "o", "r", "_", "u", "n", "e", "t">>,
    discriminator_unet_fea |->
        <<"d", "i", "s", "c", "r", "i", "m", "i", "n", "a", "t", "o", "r", "_", "u", "n", "e", "t", "_", "f", "e", "a">>,
    discriminator_switched |->
        <<"d", "i", "s", "c", "r", "i", "m", "i", "n", "a", "t", "o", "r", "_", "s", "w", "i", "t", "c", "h", "e", "d">>,
    cross_compare_vgg128 |->
        <<"c", "r", "o", "s", "s", "_", "c", "o", "m", "p", "a", "r", "e", "_", "v", "g", "g", "1", "2", "8">>,
    discriminator_refvgg |->
        <<"d", "i", "s", "c", "r", "i", "m", "i", "n", "a", "t", "o", "r", "_", "r", "e", "f", "v", "g", "g">>,
    psnr_approximator |->
        <<"p", "s", "n", "r", "_", "a", "p", "p", "r", "o", "x", "i", "m", "a", "t", "o", "r">>,
    stylegan2_discriminator |->
        <<"s", "t", "y", "l", "e", "g", "a", "n", "2", "_", "d", "i", "s", "c", "r", "i", "m", "i", "n", "a", "t", "o", "r">>,
    stylegan2_unet |->
        <<"s", "t", "y", "l", "e", "g", "a", "n", "2", "_", "u", "n", "e", "t">>,
    rrdb_disc |->
        <<"r", "r", "d", "b", "_", "d", "i", "s", "c">> ]

\* the string literals define_F tests which_model against
F_id == [
    vgg |->
        <<"v", "g", "g">>,
    wide_resnet |->
        <<"w", "i", "d", "e", "_", "r", "e", "s", "n", "e", "t">> ]

\* the prefix tested by k.startswith(...) and cut by k[7:]
module_prefix == <<"m", "o", "d", "u", "l", "e", ".">>

\* identifiers that equal none of the literals above
Other_id == [
    RRDBNetCustom |->
        <<"R", "R", "D", "B", "N", "e", "t", "C", "u", "s", "t", "o", "m">>,
    my_RRDBNet |->
        <<"m", "y", "_", "R", "R", "D", "B", "N", "e", "t">>,
    rrdbnet |->
        <<"r", "r", "d", "b", "n", "e", "t">>,
    unknown |->
        <<"u", "n", "k", "n", "o", "w", "n">>,
    VGG |->
        <<"V", "G", "G">>,
    discriminator_vgg |->
        <<"d", "i", "s", "c", "r", "i", "m", "i", "n", "a", "t", "o", "r", "_", "v", "g", "g">> ]

\* checkpoint keys of the model
Key == [
    a |->
        <<"a">>,
    module_a |->
        <<"m", "o", "d", "u", "l", "e", ".", "a">>,
    module_module_a |->
        <<"m", "o", "d", "u", "l", "e", ".", "m", "o", "d", "u", "l", "e", ".", "a">>,
    b |->
        <<"b">>,
    modules_b |->
        <<"m", "o", "d", "u", "l", "e", "s", ".", "b">>,
    module_ |->
        <<"m", "o", "d", "u", "l", "e", ".">> ]

\* a in b, for strings
Contains(a, b) ==
    \E i \in 1..(Len(b) - Len(a) + 1) : SubSeq(b, i, i + Len(a) - 1) = a

\* k.startswith(p)
StartsWith(k, p) == Len(k) >= Len(p) /\ SubSeq(k, 1, Len(p)) = p

\* a dictionary is a function from its keys; d[k] raises KeyError when k is absent
Has(d, k) == k \in DOMAIN d
Get(d, k) == IF k \in DOMAIN d THEN d[k] ELSE "<KeyError>"

\* the idiom below with the default taken even when the key is present
OptGetDefaultOnly(d, k, default) == default
\* the idiom  opt_net[k] if k in opt_net.keys() else default
OptGet(d, k, default) == IF k \in DOMAIN d THEN d[k] ELSE default

\* d[k] = v
Put(d, k, v) == [x \in DOMAIN d \cup {k} |-> IF x = k THEN v ELSE d[x]]

\* what a factory call produced: an exception, or a constructor call with its
\* keyword arguments; cfg is opt_net as the call left it, load the checkpoint
\* path read inside the call
Made(ctor, kwargs, cfg) ==
    [exc |-> None, ctor |-> ctor, kwargs |-> kwargs, wrapped |-> FALSE,
     cfg |-> cfg, load |-> None]
Raised(exc, cfg) ==
    [exc |-> exc, ctor |-> None, kwargs |-> <<>>, wrapped |-> FALSE,
     cfg |-> cfg, load |-> None]

\* a constructor call whose arguments read the keys `need` of o
Construct(o, need, ctor, kwargs) ==
    IF need \subseteq DOMAIN o THEN Made(ctor, kwargs, o) ELSE Raised("KeyError", o)

\* the test of line 38 as an equality with the three spelled-out identifiers
is_rrdbnet_exact(wm) == wm = G_id.RRDBNet \/ wm = G_id.RRDBNetBypass \/ wm = G_id.RRDBNetLambda
\* line 38:  'RRDBNet' in which_model
is_rrdbnet(wm) == Contains(G_id.RRDBNet, wm)

\* lines 39-45: the body block of the RRDBNet branch
rrdb_block(wm) ==
    IF wm = G_id.RRDBNetBypass THEN "RRDBNet_arch.RRDBWithBypass"
    ELSE IF wm = G_id.RRDBNetLambda THEN "LambdaRRDB"
    ELSE "RRDBNet_arch.RRDB"

\* lines 79-87 and 89-96: the arguments both switched generators share
SwitchedKeys ==
    {"switch_depth", "switch_filters", "switch_reductions", "switch_processing_layers",
     "trans_counts", "trans_kernel_sizes", "trans_layers", "transformation_filters",
     "temperature", "temperature_final_step", "heightened_temp_min",
     "heightened_final_step", "add_noise"}

\* lines 68-70 and 74-76: opt_net['rgb_range'] = 255; opt_net['n_colors'] = 3
WithRgb(o) == Put(Put(o, "rgb_range", "255"), "n_colors", "3")

\* define_G, lines 29-167
define_G(opt, o, scale_arg) ==
    IF scale_arg = None /\ ~Has(opt, "scale") THEN Raised("KeyError", o)
    ELSE IF ~Has(o, "which_model_G") THEN Raised("KeyError", o)
    ELSE
    LET scale == IF scale_arg = None THEN opt["scale"] ELSE scale_arg
        wm == o["which_model_G"]
    IN
    CASE wm = G_id.MSRResNet ->
            Construct(o, {"in_nc", "out_nc", "nf", "nb", "scale"}, "SRResNet_arch.MSRResNet",
                [in_nc |-> Get(o, "in_nc"), out_nc |-> Get(o, "out_nc"), nf |-> Get(o, "nf"),
                 nb |-> Get(o, "nb"), upscale |-> Get(o, "scale")])
      [] wm # G_id.MSRResNet /\ is_rrdbnet(wm) ->
            Construct(o, {"in_nc", "out_nc", "nf", "nb", "scale"}, "RRDBNet_arch.RRDBNet",
                [in_channels |-> Get(o, "in_nc"), out_channels |-> Get(o, "out_nc"),
                 mid_channels |-> Get(o, "nf"), num_blocks |-> Get(o, "nb"),
                 additive_mode |-> OptGet(o, "additive_mode", "'not'"),
                 output_mode |-> OptGet(o, "output_mode", "'hq_only'"),
                 body_block |-> rrdb_block(wm), scale |-> Get(o, "scale"),
                 growth_channels |-> OptGet(o, "gc", "32"),
                 initial_stride |-> OptGet(o, "initial_stride", "1")])
      [] wm = G_id.multires_rrdb ->
            Construct(o, {"in_nc", "out_nc", "nf", "l1", "l2", "l3", "gc", "scale"},
                "MultiResRRDBNet",
                [in_channels |-> Get(o, "in_nc"), out_channels |-> Get(o, "out_nc"),
                 mid_channels |-> Get(o, "nf"), l1_blocks |-> Get(o, "l1"),
                 l2_blocks |-> Get(o, "l2"), l3_blocks |-> Get(o, "l3"),
                 growth_channels |-> Get(o, "gc"), scale |-> Get(o, "scale")])
      [] wm = G_id.twostep_rrdb ->
            Construct(o, {"in_nc", "out_nc", "nf", "l1", "l2", "gc", "scale"},
                "PixelShufflingSteppedResRRDBNet",
                [in_channels |-> Get(o, "in_nc"), out_channels |-> Get(o, "out_nc"),
                 mid_channels |-> Get(o, "nf"), l1_blocks |-> Get(o, "l1"),
                 l2_blocks |-> Get(o, "l2"),
                 growth_channels |-> Get(o, "gc"), scale |-> Get(o, "scale")])
      [] wm = G_id.rcan ->
            Made("rcan.RCAN", [args_obj |-> WithRgb(o)], WithRgb(o))
      [] wm = G_id.panet ->
            Made("panet.PANET", [args_obj |-> WithRgb(o)], WithRgb(o))
      [] wm = G_id.ConfigurableSwitchedResidualGenerator2 ->
            Construct(o, SwitchedKeys \cup {"attention_norm", "for_video"},
                "SwitchedGen_arch.ConfigurableSwitchedResidualGenerator2",
                [switch_depth |-> Get(o, "switch_depth"),
                 switch_filters |-> Get(o, "switch_filters"),
                 switch_reductions |-> Get(o, "switch_reductions"),
                 switch_processing_layers |-> Get(o, "switch_processing_layers"),
                 trans_counts |-> Get(o, "trans_counts"),
                 trans_kernel_sizes |-> Get(o, "trans_kernel_sizes"),
                 trans_layers |-> Get(o, "trans_layers"),
                 transformation_filters |-> Get(o, "transformation_filters"),
                 attention_norm |-> Get(o, "attention_norm"),
                 initial_temp |-> Get(o, "temperature"),
                 final_temperature_step |-> Get(o, "temperature_final_step"),
                 heightened_temp_min |-> Get(o, "heightened_temp_min"),
                 heightened_final_step |-> Get(o, "heightened_final_step"),
                 upsample_factor |-> scale,
                 add_scalable_noise_to_transforms |-> Get(o, "add_noise"),
                 for_video |-> Get(o, "for_video")])
      [] wm = G_id.srg2classic ->
            Construct(o, SwitchedKeys,
                "srg2_classic.ConfigurableSwitchedResidualGenerator2",
                [switch_depth |-> Get(o, "switch_depth"),
                 switch_filters |-> Get(o, "switch_filters"),
                 switch_reductions |-> Get(o, "switch_reductions"),
                 switch_processing_layers |-> Get(o, "switch_processing_layers"),
                 trans_counts |-> Get(o, "trans_counts"),
                 trans_kernel_sizes |-> Get(o, "trans_kernel_sizes"),
                 trans_layers |-> Get(o, "trans_layers"),
                 transformation_filters |-> Get(o, "transformation_filters"),
                 initial_temp |-> Get(o, "temperature"),
                 final_temperature_step |-> Get(o, "temperature_final_step"),
                 heightened_temp_min |-> Get(o, "heightened_temp_min"),
                 heightened_final_step |-> Get(o, "heightened_final_step"),
                 upsample_factor |-> scale,
                 add_scalable_noise_to_transforms |-> Get(o, "add_noise")])
      [] wm = G_id.spsr ->
            Construct(o, {"in_nc", "out_nc", "nf", "nb", "scale"}, "spsr.SPSRNet",
                [in_nc |-> Get(o, "in_nc"), out_nc |-> Get(o, "out_nc"), nf |-> Get(o, "nf"),
                 nb |-> Get(o, "nb"), upscale |-> Get(o, "scale")])
      [] wm = G_id.spsr_net_improved ->
            Construct(o, {"in_nc", "out_nc", "nf", "nb", "scale"}, "spsr.SPSRNetSimplified",
                [in_nc |-> Get(o, "in_nc"), out_nc |-> Get(o, "out_nc"), nf |-> Get(o, "nf"),
                 nb |-> Get(o, "nb"), upscale |-> Get(o, "scale")])
      [] wm = G_id.spsr_switched ->
            Construct(o, {"nf", "scale", "temperature"}, "spsr.SwitchedSpsr",
                [in_nc |-> "3", nf |-> Get(o, "nf"), upscale |-> Get(o, "scale"),
                 init_temperature |-> Get(o, "temperature")])
      [] wm = G_id.spsr7 ->
            Construct(o, {"nf", "scale"}, "spsr.Spsr7",
                [in_nc |-> "3", out_nc |-> "3", nf |-> Get(o, "nf"),
                 xforms |-> OptGet(o, "num_transforms", "8"), upscale |-> Get(o, "scale"),
                 multiplexer_reductions |-> OptGet(o, "multiplexer_reductions", "3"),
                 init_temperature |-> OptGet(o, "temperature", "10"),
                 recurrent |-> OptGet(o, "recurrent", "False")])
      [] wm = G_id.flownet2 ->
            [Made("FlowNet2",
                  [args |-> [fp16 |-> "False", rgb_max |-> "1.0",
                             checkpoint |-> IF Has(o, "load_path") THEN "False" ELSE "True"]],
                  o)
             EXCEPT !.load = OptGet(o, "load_path", None)]
      [] wm = G_id.backbone_encoder ->
            Construct(o, {"pretrained_spinenet"}, "SwitchedGen_arch.BackboneEncoder",
                [pretrained_backbone |-> Get(o, "pretrained_spinenet")])
      [] wm = G_id.backbone_encoder_no_ref ->
            Construct(o, {"pretrained_spinenet"}, "SwitchedGen_arch.BackboneEncoderNoRef",
                [pretrained_backbone |-> Get(o, "pretrained_spinenet")])
      [] wm = G_id.backbone_encoder_no_head ->
            Made("SwitchedGen_arch.BackboneSpinenetNoHead", <<>>, o)
      [] wm = G_id.backbone_resnet ->
            Made("SwitchedGen_arch.BackboneResnet", <<>>, o)
      [] wm = G_id.tecogen ->
            Construct(o, {"nf", "scale"}, "TecoGen",
                [nf |-> Get(o, "nf"), scale |-> Get(o, "scale")])
      [] wm = G_id.stylegan2 ->
            Construct(o, {"image_size", "latent_dim", "style_depth"},
                "stylegan2.StyleGan2GeneratorWithLatent",
                [image_size |-> Get(o, "image_size"), latent_dim |-> Get(o, "latent_dim"),
                 style_depth |-> Get(o, "style_depth"),
                 structure_input |-> OptGet(o, "structured", "False"),
                 attn_layers |-> OptGet(o, "attn_layers", "[]")])
      [] wm = G_id.srflow ->
            Construct(o, {"nf", "nb", "quant", "rrdb_block_maps", "noise_quant", "K", "L",
                          "rrdb_train_step", "hr_shape", "scale"},
                "SRFlow_arch.SRFlowNet",
                [in_nc |-> "3", out_nc |-> "3", nf |-> Get(o, "nf"), nb |-> Get(o, "nb"),
                 quant |-> Get(o, "quant"), flow_block_maps |-> Get(o, "rrdb_block_maps"),
                 noise_quant |-> Get(o, "noise_quant"), hidden_channels |-> Get(o, "nf"),
                 K |-> Get(o, "K"), L |-> Get(o, "L"),
                 train_rrdb_at_step |-> Get(o, "rrdb_train_step"),
                 hr_img_shape |-> Get(o, "hr_shape"), scale |-> Get(o, "scale")])
      [] wm = G_id.srflow_orig ->
            Construct(o, {"nf", "nb", "scale", "K"}, "SRFlowNet_arch.SRFlowNet",
                [in_nc |-> "3", out_nc |-> "3", nf |-> Get(o, "nf"), nb |-> Get(o, "nb"),
                 scale |-> Get(o, "scale"), K |-> Get(o, "K"), opt |-> opt])
      [] wm = G_id.rrdb_latent_wrapper ->
            Construct(o, {"in_nc", "out_nc", "nf", "nb", "with_bypass", "blocks_for_latent",
                          "scale", "pretrain_path"},
                "RRDBLatentWrapper",
                [in_nc |-> Get(o, "in_nc"), out_nc |-> Get(o, "out_nc"), nf |-> Get(o, "nf"),
                 nb |-> Get(o, "nb"), with_bypass |-> Get(o, "with_bypass"),
                 blocks |-> Get(o, "blocks_for_latent"), scale |-> Get(o, "scale"),
                 pretrain_rrdb_path |-> Get(o, "pretrain_path")])
      [] wm = G_id.rrdb_centipede ->
            Construct(o, {"in_nc", "out_nc", "nf", "nb", "scale"}, "RRDBNet_arch.RRDBNet",
                [in_channels |-> Get(o, "in_nc"), out_channels |-> Get(o, "out_nc"),
                 mid_channels |-> Get(o, "nf"), num_blocks |-> Get(o, "nb"),
                 scale |-> Get(o, "scale"), headless |-> "True",
                 output_mode |-> OptGet(o, "output_mode", "'hq_only'")])
      [] wm = G_id.rrdb_srflow ->
            Construct(o, {"in_nc", "out_nc", "nf", "nb", "scale", "initial_stride"},
                "srflow_orig.RRDBNet_arch.RRDBNet",
                [in_nc |-> Get(o, "in_nc"), out_nc |-> Get(o, "out_nc"), nf |-> Get(o, "nf"),
                 nb |-> Get(o, "nb"), scale |-> Get(o, "scale"),
                 initial_conv_stride |-> Get(o, "initial_stride")])
      [] wm = G_id.mdcn ->
            Construct(o, {"scale"}, "MDCN",
                [args |-> [scale |-> Get(o, "scale"), n_colors |-> "3", rgb_range |-> "1.0"]])
      [] OTHER -> Raised("NotImplementedError", o)

\* img_sz / 128: a TypeError when img_sz is None
Div128(img_sz) == img_sz \o " / 128"

\* the first exception raised while the arguments of a constructor call are
\* evaluated left to right; an element of evals is a key of o that is read, or
\* "/128" for the division of img_sz
ArgsExc(o, img_sz, evals) ==
    LET bad == {i \in 1..Len(evals) :
                    IF evals[i] = "/128" THEN img_sz = None ELSE ~Has(o, evals[i])}
    IN  IF bad = {} THEN None
        ELSE LET i == CHOOSE j \in bad : \A k \in bad : j <= k
             IN  IF evals[i] = "/128" THEN "TypeError" ELSE "KeyError"

ConstructD(o, img_sz, evals, ctor, kwargs) ==
    IF ArgsExc(o, img_sz, evals) = None THEN Made(ctor, kwargs, o)
    ELSE Raised(ArgsExc(o, img_sz, evals), o)

\* lines 182-183 left out: the img_sz argument is always used
image_size_arg_only(o, img_sz) == img_sz
\* lines 182-183: opt_net['image_size'] replaces the img_sz argument
image_size(o, img_sz) == IF Has(o, "image_size") THEN o["image_size"] ELSE img_sz

\* the wrap flag honoured in every branch
wraps_any(wm, wrap) == wrap
\* lines 191-192: the only branch that looks at wrap
wraps(wm, wrap) == wm = D_id.discriminator_vgg_128_gn /\ wrap

\* lines 185-233: the branches of define_D_net, with img_sz as lines 182-183 left it
D_branch(o, img_sz, wm) ==
    CASE wm = D_id.discriminator_vgg_128 ->
            ConstructD(o, img_sz, <<"in_nc", "nf", "/128", "extra_conv">>,
                "SRGAN_arch.Discriminator_VGG_128",
                [in_nc |-> Get(o, "in_nc"), nf |-> Get(o, "nf"),
                 input_img_factor |-> Div128(img_sz), extra_conv |-> Get(o, "extra_conv")])
      [] wm = D_id.discriminator_vgg_128_gn ->
            ConstructD(o, img_sz, <<"in_nc", "nf", "/128">>,
                "SRGAN_arch.Discriminator_VGG_128_GN",
                [in_nc |-> Get(o, "in_nc"), nf |-> Get(o, "nf"),
                 input_img_factor |-> Div128(img_sz),
                 extra_conv |-> OptGet(o, "extra_conv", "False")])
      [] wm = D_id.discriminator_vgg_128_gn_checkpointed ->
            ConstructD(o, img_sz, <<"in_nc", "nf", "/128">>,
                "SRGAN_arch.Discriminator_VGG_128_GN",
                [in_nc |-> Get(o, "in_nc"), nf |-> Get(o, "nf"),
                 input_img_factor |-> Div128(img_sz), do_checkpointing |-> "True"])
      [] wm = D_id.stylegan_vgg ->
            Made("StyleGanDiscriminator", [arg1 |-> "128"], o)
      [] wm = D_id.discriminator_resnet ->
            ConstructD(o, img_sz, <<"nf">>, "DiscriminatorResnet_arch.fixup_resnet34",
                [num_filters |-> Get(o, "nf"), num_classes |-> "1",
                 input_img_size |-> img_sz])
      [] wm = D_id.discriminator_resnet_50 ->
            ConstructD(o, img_sz, <<"nf">>, "DiscriminatorResnet_arch.fixup_resnet50",
                [num_filters |-> Get(o, "nf"), num_classes |-> "1",
                 input_img_size |-> img_sz])
      [] wm = D_id.resnext ->
            Made("torchvision.models.resnext50_32x4d",
                 [norm_layer |-> "functools.partial(torch.nn.GroupNorm, 8)",
                  fc |-> "torch.nn.Linear(512 * 4, 1)"], o)
      [] wm = D_id.biggan_resnet ->
            Made("BigGanDiscriminator",
                 [D_activation |-> "torch.nn.LeakyReLU(negative_slope=.2)"], o)
      [] wm = D_id.discriminator_pix ->
            ConstructD(o, img_sz, <<"in_nc", "nf">>, "SRGAN_arch.Discriminator_VGG_PixLoss",
                [in_nc |-> Get(o, "in_nc"), nf |-> Get(o, "nf")])
      [] wm = D_id.discriminator_unet ->
            ConstructD(o, img_sz, <<"in_nc", "nf">>, "SRGAN_arch.Discriminator_UNet",
                [in_nc |-> Get(o, "in_nc"), nf |-> Get(o, "nf")])
      [] wm = D_id.discriminator_unet_fea ->
            ConstructD(o, img_sz, <<"in_nc", "nf", "feature_mode">>,
                "SRGAN_arch.Discriminator_UNet_FeaOut",
                [in_nc |-> Get(o, "in_nc"), nf |-> Get(o, "nf"),
                 feature_mode |-> Get(o, "feature_mode")])
      [] wm = D_id.discriminator_switched ->
            ConstructD(o, img_sz, <<"in_nc", "nf", "initial_temp", "final_temperature_step">>,
                "SRGAN_arch.Discriminator_switched",
                [in_nc |-> Get(o, "in_nc"), nf |-> Get(o, "nf"),
                 initial_temp |-> Get(o, "initial_temp"),
                 final_temperature_step |-> Get(o, "final_temperature_step")])
      [] wm = D_id.cross_compare_vgg128 ->
            ConstructD(o, img_sz, <<"in_nc", "nf", "scale">>,
                "SRGAN_arch.CrossCompareDiscriminator",
                [in_nc |-> Get(o, "in_nc"), ref_channels |-> OptGet(o, "ref_channels", "3"),
                 nf |-> Get(o, "nf"), scale |-> Get(o, "scale")])
      [] wm = D_id.discriminator_refvgg ->
            ConstructD(o, img_sz, <<"in_nc", "nf", "/128">>,
                "SRGAN_arch.RefDiscriminatorVgg128",
                [in_nc |-> Get(o, "in_nc"), nf |-> Get(o, "nf"),
                 input_img_factor |-> Div128(img_sz)])
      [] wm = D_id.psnr_approximator ->
            ConstructD(o, img_sz, <<"nf", "/128">>, "SRGAN_arch.PsnrApproximator",
                [nf |-> Get(o, "nf"), input_img_factor |-> Div128(img_sz)])
      [] wm = D_id.stylegan2_discriminator ->
            ConstructD(o, img_sz,
                <<"image_size", "in_nc", "image_size", "augmentation_types",
                  "augmentation_probability">>,
                "stylegan2.StyleGan2Augmentor",
                [disc |-> [ctor |-> "stylegan2.StyleGan2Discriminator",
                           image_size |-> Get(o, "image_size"),
                           input_filters |-> Get(o, "in_nc"),
                           attn_layers |-> OptGet(o, "attn_layers", "[]")],
                 image_size |-> Get(o, "image_size"),
                 types |-> Get(o, "augmentation_types"),
                 prob |-> Get(o, "augmentation_probability")])
      [] wm = D_id.stylegan2_unet ->
            ConstructD(o, img_sz,
                <<"image_size", "in_nc", "image_size", "augmentation_types",
                  "augmentation_probability">>,
                "stylegan2.StyleGan2Augmentor",
                [disc |-> [ctor |-> "stylegan2_unet.StyleGan2UnetDiscriminator",
                           image_size |-> Get(o, "image_size"),
                           input_filters |-> Get(o, "in_nc")],
                 image_size |-> Get(o, "image_size"),
                 types |-> Get(o, "augmentation_types"),
                 prob |-> Get(o, "augmentation_probability")])
      [] wm = D_id.rrdb_disc ->
            ConstructD(o, img_sz, <<"in_nc", "nf", "nb">>, "RRDBNet_arch.RRDBDiscriminator",
                [arg1 |-> Get(o, "in_nc"), arg2 |-> Get(o, "nf"), arg3 |-> Get(o, "nb"),
                 blocks_per_checkpoint |-> "3"])
      [] OTHER -> Raised("NotImplementedError", o)

\* define_D_net, lines 179-234
define_D_net(o, img_sz, wrap) ==
    IF ~Has(o, "which_model_D") THEN Raised("KeyError", o)
    ELSE LET wm == o["which_model_D"]
             r == D_branch(o, image_size(o, img_sz), wm)
         IN  IF r.exc = None /\ wraps(wm, wrap) THEN [r EXCEPT !.wrapped = TRUE] ELSE r

\* define_D, lines 237-240
define_D(opt, wrap) ==
    IF ~(Has(opt, "datasets") /\ Has(opt.datasets, "train")
         /\ Has(opt.datasets.train, "target_size") /\ Has(opt, "network_D"))
    THEN Raised("KeyError", <<>>)
    ELSE define_D_net(opt.network_D, opt.datasets.train.target_size, wrap)

\* lines 248-253 and 288-293: load_net_clean[...] = v on an OrderedDict, kept as the
\* sequence of its (key, value) items
SetItem(d, k, v) ==
    IF \E j \in 1..Len(d) : d[j][1] = k
    THEN [j \in 1..Len(d) |-> IF d[j][1] = k THEN <<k, v>> ELSE d[j]]
    ELSE Append(d, <<k, v>>)

\* the slice taken one character early, k[6:]
clean_key_off_by_one(k) == IF StartsWith(k, module_prefix) THEN SubSeq(k, 7, Len(k)) ELSE k
\* lines 250-253: the key under which the loop stores an item
clean_key(k) == IF StartsWith(k, module_prefix) THEN SubSeq(k, 8, Len(k)) ELSE k

RECURSIVE CleanFrom(_, _, _)
CleanFrom(items, i, load_net_clean_) ==
    IF i > Len(items) THEN load_net_clean_
    ELSE CleanFrom(items, i + 1,
                   SetItem(load_net_clean_, clean_key(items[i][1]), items[i][2]))

clean_state_dict(items) == CleanFrom(items, 1, <<>>)

\* define_F lines 267-283: the feature extractor constructed, or NotImplementedError
F_construct(which_model, use_bn, for_training, feature_layers) ==
    IF which_model = F_id.vgg
    THEN Made(IF for_training THEN "feature_arch.TrainableVGGFeatureExtractor"
                              ELSE "feature_arch.VGGFeatureExtractor",
              [feature_layers |-> IF feature_layers = None
                                  THEN (IF use_bn THEN "[49]" ELSE "[34]")
                                  ELSE feature_layers,
               use_bn |-> use_bn, use_input_norm |-> "True"], <<>>)
    ELSE IF which_model = F_id.wide_resnet
    THEN Made("feature_arch.WideResnetFeatureExtractor", [use_input_norm |-> "True"], <<>>)
    ELSE Raised("NotImplementedError", <<>>)

\* truth value of a Python value used as a condition
Truthy(v) == v \notin {None, "''", "False", "0"}

\* ---- the network object ----
\* parameters of a network of the model
Params == {"weight", "bias"}

NoNet == [ctor |-> None]

\* a torch.nn.Module just constructed; its mode and the requires_grad of its
\* parameters are whatever the constructor (code outside this file) left
Module(r, training, requires_grad) ==
    [ctor |-> r.ctor, kwargs |-> r.kwargs, wrapped |-> r.wrapped,
     training |-> training, requires_grad |-> requires_grad,
     loaded |-> FALSE, state_dict |-> <<>>, fdisc_weight |-> None]

\* line 296 with the freezing block never entered
F_after_load_always_return(for_training) == "return"
\* line 296 of define_F: what follows the optional checkpoint load
F_after_load(for_training) == IF for_training THEN "return" ELSE "eval"

\* define_fixed_D without its net.eval() call
FixedD_next_skip_eval(at) ==
    CASE at = "load_state_dict" -> "freeze"
      [] at = "eval" -> "freeze"
      [] at = "freeze" -> "set_weight"
      [] at = "set_weight" -> "return"

\* define_fixed_D, lines 256-262: the statements that follow load_state_dict
FixedD_next(at) ==
    CASE at = "load_state_dict" -> "eval"
      [] at = "eval" -> "freeze"
      [] at = "freeze" -> "set_weight"
      [] at = "set_weight" -> "return"

\* ---- inputs of the factories ----
MaxMissing == 1
MaxEntries == 2

Without(d, ks) == [k \in DOMAIN d \ ks |-> d[k]]

UpTo(S, n) == {x \in SUBSET S : Cardinality(x) <= n}

GIdentifiers ==
    {G_id[k] : k \in DOMAIN G_id}
        \cup {Other_id.RRDBNetCustom, Other_id.my_RRDBNet, Other_id.rrdbnet, Other_id.unknown}

DIdentifiers ==
    {D_id[k] : k \in DOMAIN D_id} \cup {Other_id.discriminator_vgg, Other_id.unknown}

FIdentifiers == {F_id.vgg, F_id.wide_resnet, Other_id.VGG, Other_id.unknown}

\* a generator configuration with every key define_G reads; variant "default"
\* gives the optional keys of the RRDBNet branch their default values
GConfig(wm, variant) ==
    [which_model_G |-> wm, in_nc |-> "3", out_nc |-> "3", nf |-> "64", nb |-> "23",
     scale |-> "4",
     additive_mode |-> IF variant = "default" THEN "'not'" ELSE "'additive'",
     output_mode |-> IF variant = "default" THEN "'hq_only'" ELSE "'hq+features'",
     gc |-> IF variant = "default" THEN "32" ELSE "48",
     initial_stride |-> IF variant = "default" THEN "1" ELSE "2",
     l1 |-> "3", l2 |-> "4", l3 |-> "5",
     switch_depth |-> "5", switch_filters |-> "[16]", switch_reductions |-> "[3]",
     switch_processing_layers |-> "[2]", trans_counts |-> "[8]",
     trans_kernel_sizes |-> "[3]", trans_layers |-> "[4]",
     transformation_filters |-> "64", attention_norm |-> "True", temperature |-> "50",
     temperature_final_step |-> "10000", heightened_temp_min |-> "1",
     heightened_final_step |-> "1", add_noise |-> "True", for_video |-> "False",
     recurrent |-> "True", num_transforms |-> "4", multiplexer_reductions |-> "2",
     load_path |-> "'flownet2.pth'", pretrained_spinenet |-> "'spinenet.pth'",
     structured |-> "True", attn_layers |-> "[1]", image_size |-> "256",
     latent_dim |-> "512", style_depth |-> "8", quant |-> "255",
     rrdb_block_maps |-> "[1, 8]", noise_quant |-> "True", K |-> "16", L |-> "3",
     rrdb_train_step |-> "0", hr_shape |-> "[3, 160, 160]", with_bypass |-> "False",
     blocks_for_latent |-> "[8]", pretrain_path |-> "'rrdb.pth'"]

GOptional == {"additive_mode", "output_mode", "gc", "initial_stride"}
GRequired == {"in_nc", "scale", "temperature", "load_path"}

GCalls ==
    {[fn |-> "define_G", opt |-> [scale |-> "8"],
      opt_net |-> Without(GConfig(wm, variant), absent \cup missing), scale |-> scale] :
        wm \in GIdentifiers, variant \in {"default", "other"},
        absent \in SUBSET GOptional, missing \in UpTo(GRequired, MaxMissing),
        scale \in {None, "2"}}

\* a discriminator configuration with every key define_D_net and define_fixed_D read
DConfig(wm, size) ==
    [which_model_D |-> wm, image_size |-> size, in_nc |-> "3", nf |-> "64",
     extra_conv |-> "True", feature_mode |-> "'interpolate'", initial_temp |-> "10",
     final_temperature_step |-> "5000", ref_channels |-> "6", scale |-> "4",
     attn_layers |-> "[2]", augmentation_types |-> "['translation']",
     augmentation_probability |-> ".3", nb |-> "3",
     pretrained_path |-> "'disc.pth'", weight |-> ".5"]

DOptional == {"image_size", "extra_conv"}
DRequired == {"in_nc", "nf"}

DConfigs ==
    {Without(DConfig(wm, size), absent \cup missing) :
        wm \in DIdentifiers, size \in {"64", None},
        absent \in SUBSET DOptional, missing \in UpTo(DRequired, MaxMissing)}

DNetCalls ==
    {[fn |-> "define_D_net", opt_net |-> o, img_sz |-> img_sz, wrap |-> wrap] :
        o \in DConfigs, img_sz \in {None, "128"}, wrap \in BOOLEAN}

DCalls ==
    {[fn |-> "define_D",
      opt |-> [datasets |-> [train |-> train], network_D |-> o], wrap |-> wrap] :
        o \in DConfigs, train \in {[target_size |-> "256"], [mode |-> "'imagefolder'"]},
        wrap \in BOOLEAN}

FixedDCalls ==
    {[fn |-> "define_fixed_D", opt |-> Without(DConfig(wm, "64"), absent \cup missing)] :
        wm \in DIdentifiers, absent \in SUBSET {"image_size"},
        missing \in UpTo({"nf", "pretrained_path", "weight"}, MaxMissing)}

FCalls ==
    {[fn |-> "define_F", which_model |-> wm, use_bn |-> use_bn,
      for_training |-> for_training, load_path |-> load_path,
      feature_layers |-> feature_layers] :
        wm \in FIdentifiers, use_bn \in BOOLEAN, for_training \in BOOLEAN,
        load_path \in {None, "''", "'vgg.pth'"}, feature_layers \in {None, "[22]"}}

\* what torch.load can return: the items of a state dictionary, distinct keys,
\* the i-th loaded value written "tensor<i>"
Tensor == <<"tensor1", "tensor2", "tensor3", "tensor4">>
Keys == {Key[k] : k \in DOMAIN Key}

StateDicts ==
    UNION {{[i \in 1..n |-> <<ks[i], Tensor[i]>>] :
                ks \in {s \in [1..n -> Keys] : \A i, j \in 1..n : i # j => s[i] # s[j]}} :
           n \in 0..MaxEntries}

NetInit ==
    /\ call \in GCalls \cup DNetCalls \cup DCalls \cup FixedDCalls \cup FCalls
    /\ npc = "call"
    /\ net = NoNet
    /\ built = NoNet
    /\ outcome = "running"
    /\ load_net = [path |-> None, items |-> <<>>]
    /\ load_net_clean = <<>>
    /\ steps = <<>>
    /\ entry = None /\ input = <<>> /\ text = <<>> /\ pc = 0

\* the end of a call that raised
Raise(exc) ==
    /\ outcome' = exc
    /\ npc' = "done"

\* define_G(opt, opt_net, scale); the flownet2 branch loads a checkpoint, which
\* torch.load or load_state_dict may refuse
DefineG ==
    /\ call.fn = "define_G" /\ npc = "call"
    /\ LET r == define_G(call.opt, call.opt_net, call.scale)
       IN  IF r.exc # None
           THEN /\ Raise(r.exc)
                /\ UNCHANGED <<net, built, steps, load_net>>
           ELSE \E training \in BOOLEAN, requires_grad \in [Params -> BOOLEAN],
                   ok \in BOOLEAN :
                    /\ built' = Module(r, training, requires_grad)
                    /\ IF r.load = None
                       THEN /\ net' = built'
                            /\ steps' = <<"construct">>
                            /\ outcome' = "returned"
                            /\ UNCHANGED load_net
                       ELSE /\ load_net' = [load_net EXCEPT !.path = r.load]
                            /\ IF ok
                               THEN /\ net' = [built' EXCEPT !.loaded = TRUE]
                                    /\ steps' = <<"construct", "torch.load", "load_state_dict">>
                                    /\ outcome' = "returned"
                               ELSE /\ net' = built'
                                    /\ steps' = <<"construct", "torch.load">>
                                    /\ outcome' = "LoadError"
                    /\ npc' = "done"
    /\ UNCHANGED <<textvars, call, load_net_clean>>

\* the end of define_D_net and define_D, which return what was constructed
ReturnBuilt(r) ==
    IF r.exc # None
    THEN /\ Raise(r.exc)
         /\ UNCHANGED <<net, built, steps>>
    ELSE \E training \in BOOLEAN, requires_grad \in [Params -> BOOLEAN] :
            /\ built' = Module(r, training, requires_grad)
            /\ net' = built'
            /\ steps' = <<"construct">>
            /\ outcome' = "returned"
            /\ npc' = "done"

DefineDNet ==
    /\ call.fn = "define_D_net" /\ npc = "call"
    /\ ReturnBuilt(define_D_net(call.opt_net, call.img_sz, call.wrap))
    /\ UNCHANGED <<textvars, call, load_net, load_net_clean>>

DefineD ==
    /\ call.fn = "define_D" /\ npc = "call"
    /\ ReturnBuilt(define_D(call.opt, call.wrap))
    /\ UNCHANGED <<textvars, call, load_net, load_net_clean>>

\* the constructing first statement of define_fixed_D (line 244) and of define_F
\* (lines 267-283)
Constructed(r, next) ==
    IF r.exc # None
    THEN /\ Raise(r.exc)
         /\ UNCHANGED <<net, built, steps>>
    ELSE \E training \in BOOLEAN, requires_grad \in [Params -> BOOLEAN] :
            /\ built' = Module(r, training, requires_grad)
            /\ net' = built'
            /\ steps' = <<"construct">>
            /\ npc' = next
            /\ UNCHANGED outcome

FixedD_Construct ==
    /\ call.fn = "define_fixed_D" /\ npc = "call"
    /\ Constructed(define_D_net(call.opt, None, FALSE), "torch.load")
    /\ UNCHANGED <<textvars, call, load_net, load_net_clean>>

F_Construct ==
    /\ call.fn = "define_F" /\ npc = "call"
    /\ Constructed(F_construct(call.which_model, call.use_bn, call.for_training,
                               call.feature_layers),
                   IF Truthy(call.load_path) THEN "torch.load"
                   ELSE F_after_load(call.for_training))
    /\ UNCHANGED <<textvars, call, load_net, load_net_clean>>

\* load_net = torch.load(path), lines 247 and 287; the file may fail to load
TorchLoad ==
    /\ npc = "torch.load"
    /\ IF call.fn = "define_fixed_D" /\ ~Has(call.opt, "pretrained_path")
       THEN Raise("KeyError") /\ UNCHANGED <<load_net, steps>>
       ELSE LET path == IF call.fn = "define_fixed_D" THEN call.opt["pretrained_path"]
                        ELSE call.load_path
            IN  \/ \E items \in StateDicts :
                       /\ load_net' = [path |-> path, items |-> items]
                       /\ steps' = Append(steps, "torch.load")
                       /\ npc' = "clean"
                       /\ UNCHANGED outcome
                \/ Raise("LoadError") /\ UNCHANGED <<load_net, steps>>
    /\ UNCHANGED <<textvars, call, net, built, load_net_clean>>

\* lines 248-253 and 288-293
CleanKeys ==
    /\ npc = "clean"
    /\ load_net_clean' = clean_state_dict(load_net.items)
    /\ npc' = "load_state_dict"
    /\ UNCHANGED <<textvars, call, net, built, outcome, load_net, steps>>

\* net.load_state_dict(load_net_clean), lines 254 and 294; strict loading raises
\* RuntimeError when the keys are not those of the network
LoadStateDict ==
    /\ npc = "load_state_dict"
    /\ \/ /\ net' = [net EXCEPT !.loaded = TRUE, !.state_dict = load_net_clean]
          /\ steps' = Append(steps, "load_state_dict")
          /\ npc' = IF call.fn = "define_fixed_D" THEN FixedD_next("load_state_dict")
                    ELSE F_after_load(call.for_training)
          /\ UNCHANGED outcome
       \/ Raise("RuntimeError") /\ UNCHANGED <<net, steps>>
    /\ UNCHANGED <<textvars, call, built, load_net, load_net_clean>>

\* net.eval(), lines 257 and 298
Eval ==
    /\ npc = "eval"
    /\ net' = [net EXCEPT !.training = FALSE]
    /\ steps' = Append(steps, "eval")
    /\ npc' = IF call.fn = "define_fixed_D" THEN FixedD_next("eval") ELSE "freeze"
    /\ UNCHANGED <<textvars, call, built, outcome, load_net, load_net_clean>>

\* for k, v in net.named_parameters(): v.requires_grad = False, lines 258-259, 299-300
Freeze ==
    /\ npc = "freeze"
    /\ net' = [net EXCEPT !.requires_grad = [p \in Params |-> FALSE]]
    /\ steps' = Append(steps, "freeze")
    /\ npc' = IF call.fn = "define_fixed_D" THEN FixedD_next("freeze") ELSE "return"
    /\ UNCHANGED <<textvars, call, built, outcome, load_net, load_net_clean>>

\* net.fdisc_weight = opt['weight'], line 260
SetWeight ==
    /\ npc = "set_weight"
    /\ IF Has(call.opt, "weight")
       THEN /\ net' = [net EXCEPT !.fdisc_weight = call.opt["weight"]]
            /\ steps' = Append(steps, "set_weight")
            /\ npc' = FixedD_next("set_weight")
            /\ UNCHANGED outcome
       ELSE Raise("KeyError") /\ UNCHANGED <<net, steps>>
    /\ UNCHANGED <<textvars, call, built, load_net, load_net_clean>>

\* return net / return netF, lines 262 and 302
Return ==
    /\ npc = "return"
    /\ outcome' = "returned"
    /\ npc' = "done"
    /\ UNCHANGED <<textvars, call, net, built, load_net, load_net_clean, steps>>

NetNext ==
    \/ DefineG \/ DefineDNet \/ DefineD \/ FixedD_Construct \/ F_Construct
    \/ TorchLoad \/ CleanKeys \/ LoadStateDict \/ Eval \/ Freeze \/ SetWeight \/ Return

SpecNet == NetInit /\ [][NetNext]_vars

(***************************************************************************)
(* Properties of the cleaners                                              *)
(***************************************************************************)
Returned == pc = 0
HumanizeReturned == entry = "humanize_mixed_cleaners" /\ pc = 0

\* C1: humanize_mixed_cleaners is the ordered pipeline normalize_punctuation,
\* remove_special_characters, process_mixed_language, collapse_whitespace: before
\* each statement `text` is the composition of the earlier steps applied to the
\* input, and the returned text is the composition of all four, in that order.
C1_OrderedPipeline ==
    entry = "humanize_mixed_cleaners" =>
        LET a == normalize_punctuation(input)
            b == remove_special_characters(a)
            c == process_mixed_language(b)
            d == collapse_whitespace(c)
        IN  /\ pc = 109 => text = input
            /\ pc = 110 => text = a
            /\ pc = 111 => text = b
            /\ pc = 112 => text = c
            /\ pc = 0 => text = d

\* a returned call in which the punctuation step, the special-character step and
\* the mixed-language step each changed the text
C1_Witness ==
    /\ HumanizeReturned
    /\ LET a == normalize_punctuation(input)
           b == remove_special_characters(a)
           c == process_mixed_language(b)
       IN  a # input /\ b # a /\ c # b /\ text # input

\* the text holds a whole-word occurrence of pat (the regex \b pat \b matches)
HasWholeWord(t, pat) == \E i \in 1..Len(t) : MatchAt(pat, t, i)

\* C2: for every entry of the abbreviation table, the multi-word entries included,
\* a whole-word occurrence of the abbreviation in the input of
\* humanize_mixed_cleaners appears in the output as its expanded form.
C2_AbbreviationsExpanded ==
    HumanizeReturned =>
        \A k \in 1..Len(abbreviations_urdu) :
            HasWholeWord(input, abbreviations_urdu[k][1])
                => HasWholeWord(text, abbreviations_urdu[k][2])

\* C7: process_mixed_language handles each whitespace-separated word on its own
\* and in order: a word with a code point in U+0600..U+06FF gets
\* normalize_numbers_urdu then expand_abbreviations_urdu (never unidecode), a word
\* without one but with a letter a-z/A-Z gets unidecode, any other word is kept,
\* and the result is the processed words joined by single spaces.
C7_Word(w) ==
    LET hasUrdu == \E i \in 1..Len(w) : 1536 <= w[i] /\ w[i] <= 1791
        hasLatin == \E i \in 1..Len(w) :
                        \/ (65 <= w[i] /\ w[i] <= 90)
                        \/ (97 <= w[i] /\ w[i] <= 122)
    IN  CASE hasUrdu -> expand_abbreviations_urdu(normalize_numbers_urdu(w))
          [] ~hasUrdu /\ hasLatin -> unidecode(w)
          [] OTHER -> w

C7_WordByWord ==
    (entry = "process_mixed_language" /\ pc = 0) =>
        LET ws == split(input)
        IN  text = join([i \in 1..Len(ws) |-> C7_Word(ws[i])])

\* a returned call whose input had an Urdu word that also holds Latin letters and
\* a word without Urdu code points
C7_Witness ==
    /\ entry = "process_mixed_language" /\ pc = 0
    /\ LET ws == split(input)
       IN  /\ \E i \in 1..Len(ws) :
                  urdu_regex_search(ws[i]) /\ english_regex_search(ws[i])
           /\ \E i \in 1..Len(ws) : ~urdu_regex_search(ws[i])
           /\ text # input

(***************************************************************************)
(* Properties of the factories                                             *)
(***************************************************************************)
Finished == npc = "done"
IsDiscCall == call.fn \in {"define_D_net", "define_D", "define_fixed_D"}

\* the opt_net that reaches define_D_net, and its img_sz argument
DiscOpt ==
    CASE call.fn = "define_D_net" -> call.opt_net
      [] call.fn = "define_D" -> call.opt.network_D
      [] call.fn = "define_fixed_D" -> call.opt
DiscImgSzArg ==
    CASE call.fn = "define_D_net" -> call.img_sz
      [] call.fn = "define_D" -> call.opt.datasets.train.target_size
      [] call.fn = "define_fixed_D" -> None
DiscReached ==
    IsDiscCall /\ (call.fn = "define_D" => "target_size" \in DOMAIN call.opt.datasets.train)

\* the constructor each identifier of the dispatch tables stands for
C3_G_ctor == [
    MSRResNet |-> "SRResNet_arch.MSRResNet",
    RRDBNet |-> "RRDBNet_arch.RRDBNet",
    RRDBNetBypass |-> "RRDBNet_arch.RRDBNet",
    RRDBNetLambda |-> "RRDBNet_arch.RRDBNet",
    multires_rrdb |-> "MultiResRRDBNet",
    twostep_rrdb |-> "PixelShufflingSteppedResRRDBNet",
    rcan |-> "rcan.RCAN",
    panet |-> "panet.PANET",
    ConfigurableSwitchedResidualGenerator2 |->
        "SwitchedGen_arch.ConfigurableSwitchedResidualGenerator2",
    srg2classic |-> "srg2_classic.ConfigurableSwitchedResidualGenerator2",
    spsr |-> "spsr.SPSRNet",
    spsr_net_improved |-> "spsr.SPSRNetSimplified",
    spsr_switched |-> "spsr.SwitchedSpsr",
    spsr7 |-> "spsr.Spsr7",
    flownet2 |-> "FlowNet2",
    backbone_encoder |-> "SwitchedGen_arch.BackboneEncoder",
    backbone_encoder_no_ref |-> "SwitchedGen_arch.BackboneEncoderNoRef",
    backbone_encoder_no_head |-> "SwitchedGen_arch.BackboneSpinenetNoHead",
    backbone_resnet |-> "SwitchedGen_arch.BackboneResnet",
    tecogen |-> "TecoGen",
    stylegan2 |-> "stylegan2.StyleGan2GeneratorWithLatent",
    srflow |-> "SRFlow_arch.SRFlowNet",
    srflow_orig |-> "SRFlowNet_arch.SRFlowNet",
    rrdb_latent_wrapper |-> "RRDBLatentWrapper",
    rrdb_centipede |-> "RRDBNet_arch.RRDBNet",
    rrdb_srflow |-> "srflow_orig.RRDBNet_arch.RRDBNet",
    mdcn |-> "MDCN" ]

C3_D_ctor == [
    discriminator_vgg_128 |-> "SRGAN_arch.Discriminator_VGG_128",
    discriminator_vgg_128_gn |-> "SRGAN_arch.Discriminator_VGG_128_GN",
    discriminator_vgg_128_gn_checkpointed |-> "SRGAN_arch.Discriminator_VGG_128_GN",
    stylegan_vgg |-> "StyleGanDiscriminator",
    discriminator_resnet |-> "DiscriminatorResnet_arch.fixup_resnet34",
    discriminator_resnet_50 |-> "DiscriminatorResnet_arch.fixup_resnet50",
    resnext |-> "torchvision.models.resnext50_32x4d",
    biggan_resnet |-> "BigGanDiscriminator",
    discriminator_pix |-> "SRGAN_arch.Discriminator_VGG_PixLoss",
    discriminator_unet |-> "SRGAN_arch.Discriminator_UNet",
    discriminator_unet_fea |-> "SRGAN_arch.Discriminator_UNet_FeaOut",
    discriminator_switched |-> "SRGAN_arch.Discriminator_switched",
    cross_compare_vgg128 |-> "SRGAN_arch.CrossCompareDiscriminator",
    discriminator_refvgg |-> "SRGAN_arch.RefDiscriminatorVgg128",
    psnr_approximator |-> "SRGAN_arch.PsnrApproximator",
    stylegan2_discriminator |-> "stylegan2.StyleGan2Augmentor",
    stylegan2_unet |-> "stylegan2.StyleGan2Augmentor",
    rrdb_disc |-> "RRDBNet_arch.RRDBDiscriminator" ]

C3_F_ctor == [
    vgg |-> "feature_arch.VGGFeatureExtractor",
    wide_resnet |-> "feature_arch.WideResnetFeatureExtractor" ]

\* nothing was constructed, returned or loaded, and NotImplementedError was raised
C3_Refused ==
    /\ outcome = "NotImplementedError"
    /\ built = NoNet /\ net = NoNet
    /\ load_net.path = None /\ load_net.items = <<>> /\ steps = <<>>

\* a table decides the call: an identifier of the table gives its one constructor,
\* any other identifier is refused
C3_ByTable(ids, ctors, wm) ==
    /\ \A k \in DOMAIN ids :
           wm = ids[k] => /\ outcome # "NotImplementedError"
                          /\ built # NoNet => built.ctor = ctors[k]
    /\ (\A k \in DOMAIN ids : wm # ids[k]) => C3_Refused

\* C3 as stated: in define_G, define_D_net and define_F the identifier alone
\* decides; each identifier of the dispatch table selects exactly one constructor and
\* every identifier that is not an entry of the table raises NotImplementedError, with
\* no network constructed or returned and no checkpoint loaded.
C3_DispatchOnTableOnly ==
    Finished =>
        /\ call.fn = "define_G" => C3_ByTable(G_id, C3_G_ctor, call.opt_net.which_model_G)
        /\ call.fn = "define_D_net" =>
               C3_ByTable(D_id, C3_D_ctor, call.opt_net.which_model_D)
        /\ call.fn = "define_F" /\ (built # NoNet \/ outcome = "NotImplementedError") =>
               C3_ByTable(F_id, C3_F_ctor, call.which_model)

C3_HasRRDBNet(wm) ==
    \E i \in 1..Len(wm) :
        i + 6 <= Len(wm) /\ SubSeq(wm, i, i + 6) = <<"R", "R", "D", "B", "N", "e", "t">>

\* C3 amended: as stated, except that in define_G every identifier that contains
\* 'RRDBNet' selects RRDBNet_arch.RRDBNet and is not refused, whether or not it is
\* one of the three spelled-out identifiers, and that in define_F 'vgg' selects
\* TrainableVGGFeatureExtractor when for_training is true and VGGFeatureExtractor
\* when it is false.
C3_DispatchAmended ==
    Finished =>
        /\ call.fn = "define_G" =>
               LET wm == call.opt_net.which_model_G
               IN  IF C3_HasRRDBNet(wm)
                   THEN /\ outcome # "NotImplementedError"
                        /\ built # NoNet => built.ctor = "RRDBNet_arch.RRDBNet"
                   ELSE C3_ByTable(G_id, C3_G_ctor, wm)
        /\ call.fn = "define_D_net" =>
               C3_ByTable(D_id, C3_D_ctor, call.opt_net.which_model_D)
        /\ call.fn = "define_F" /\ (built # NoNet \/ outcome = "NotImplementedError") =>
               IF call.which_model = <<"v", "g", "g">> /\ call.for_training
               THEN built.ctor = "feature_arch.TrainableVGGFeatureExtractor"
               ELSE C3_ByTable(F_id, C3_F_ctor, call.which_model)

\* define_G returned a network for an identifier that only contains 'RRDBNet'
C3_Witness ==
    /\ call.fn = "define_G" /\ outcome = "returned"
    /\ call.opt_net.which_model_G = Other_id.my_RRDBNet
    /\ net.ctor = "RRDBNet_arch.RRDBNet"

\* C4: define_F with for_training false returns a network in eval mode with
\* requires_grad False on every parameter; with for_training true it neither
\* calls eval nor changes requires_grad; for every recognised which_model, with or
\* without load_path.
C4_FrozenOrTrainable ==
    (call.fn = "define_F" /\ outcome = "returned") =>
        IF call.for_training
        THEN /\ net.training = built.training
             /\ net.requires_grad = built.requires_grad
             /\ \A i \in 1..Len(steps) : steps[i] \notin {"eval", "freeze"}
        ELSE /\ ~net.training
             /\ \A p \in Params : ~net.requires_grad[p]

\* a frozen extractor returned after a checkpoint load, whose constructor had left
\* it in training mode with a trainable parameter
C4_Witness ==
    /\ call.fn = "define_F" /\ outcome = "returned" /\ ~call.for_training
    /\ net.loaded /\ built.training /\ \E p \in Params : built.requires_grad[p]
    /\ ~net.training /\ \A p \in Params : ~net.requires_grad[p]

C5_Order == <<"construct", "torch.load", "load_state_dict", "eval", "freeze", "set_weight">>

\* C5: a define_fixed_D call that returns has constructed, loaded the cleaned
\* checkpoint of opt['pretrained_path'], called eval, frozen every parameter and
\* set fdisc_weight to opt['weight'], in that order; a call that failed in
\* construction or load returns nothing.
C5_FixedD ==
    call.fn = "define_fixed_D" =>
        /\ Len(steps) <= Len(C5_Order) /\ steps = SubSeq(C5_Order, 1, Len(steps))
        /\ outcome = "returned" =>
               /\ steps = C5_Order
               /\ net.loaded /\ net.state_dict = load_net_clean
               /\ load_net.path = call.opt["pretrained_path"]
               /\ ~net.training
               /\ \A p \in Params : ~net.requires_grad[p]
               /\ net.fdisc_weight = call.opt["weight"]
        /\ (Finished /\ (\A i \in 1..Len(steps) : steps[i] # "load_state_dict")) =>
               outcome # "returned"

\* a returned fixed discriminator whose constructor had left it trainable
C5_Witness ==
    /\ call.fn = "define_fixed_D" /\ outcome = "returned"
    /\ built.training /\ \A p \in Params : built.requires_grad[p]
    /\ Len(load_net.items) > 0

\* the cleaning loop has run in this call
C6_Cleaned ==
    /\ call.fn \in {"define_fixed_D", "define_F"}
    /\ npc \in {"load_state_dict", "eval", "freeze", "set_weight", "return", "done"}
    /\ \E i \in 1..Len(steps) : steps[i] = "torch.load"

C6_Key(k) ==
    IF Len(k) >= 7 /\ SubSeq(k, 1, 7) = <<"m", "o", "d", "u", "l", "e", ".">>
    THEN [i \in 1..(Len(k) - 7) |-> k[i + 7]]
    ELSE k

C8_Dividing ==
    {D_id.discriminator_vgg_128, D_id.discriminator_vgg_128_gn,
     D_id.discriminator_vgg_128_gn_checkpointed, D_id.discriminator_refvgg,
     D_id.psnr_approximator}
C8_Passing == {D_id.discriminator_resnet, D_id.discriminator_resnet_50}

\* C8: the image size a discriminator constructor gets is opt_net['image_size']
\* when that key is present (the img_sz argument is ignored) and the img_sz
\* argument otherwise: opt['datasets']['train']['target_size'] under define_D, None
\* under define_fixed_D, where every branch that computes img_sz / 128 therefore
\* fails when 'image_size' is absent.
C8_ImageSize ==
    (DiscReached /\ Finished) =>
        LET o == DiscOpt
            size == IF "image_size" \in DOMAIN o THEN o["image_size"] ELSE DiscImgSzArg
        IN  /\ (built # NoNet /\ o["which_model_D"] \in C8_Dividing) =>
                   /\ size # None
                   /\ built.kwargs.input_img_factor = size \o " / 128"
            /\ (built # NoNet /\ o["which_model_D"] \in C8_Passing) =>
                   built.kwargs.input_img_size = size
            /\ (call.fn = "define_fixed_D" /\ "image_size" \notin DOMAIN o
                    /\ o["which_model_D"] \in C8_Dividing) =>
                   /\ outcome \in {"TypeError", "KeyError"}
                   /\ built = NoNet /\ net = NoNet

\* define_D built a dividing discriminator from target_size, 'image_size' absent
C8_Witness ==
    /\ call.fn = "define_D" /\ outcome = "returned"
    /\ "image_size" \notin DOMAIN call.opt.network_D
    /\ call.opt.network_D["which_model_D"] \in C8_Dividing
    /\ net.kwargs.input_img_factor = "256 / 128"

\* C9: in the define_G branch for identifiers containing 'RRDBNet' the body block
\* is RRDBWithBypass for exactly 'RRDBNetBypass', LambdaRRDB for exactly
\* 'RRDBNetLambda' and RRDB otherwise; additive_mode, output_mode, gc and
\* initial_stride are passed from opt_net when present and are 'not', 'hq_only', 32
\* and 1 when absent.
C9_RRDBNetBranch ==
    (call.fn = "define_G" /\ Finished /\ built # NoNet
        /\ C3_HasRRDBNet(call.opt_net.which_model_G)) =>
        LET o == call.opt_net
            wm == o.which_model_G
            kw == built.kwargs
            passed(key, got, default) ==
                /\ key \in DOMAIN o => got = o[key]
                /\ key \notin DOMAIN o => got = default
        IN  /\ built.ctor = "RRDBNet_arch.RRDBNet"
            /\ wm = <<"R", "R", "D", "B", "N", "e", "t", "B", "y", "p", "a", "s", "s">>
                   => kw.body_block = "RRDBNet_arch.RRDBWithBypass"
            /\ wm = <<"R", "R", "D", "B", "N", "e", "t", "L", "a", "m", "b", "d", "a">>
                   => kw.body_block = "LambdaRRDB"
            /\ wm \notin {<<"R", "R", "D", "B", "N", "e", "t", "B", "y", "p", "a", "s", "s">>,
                          <<"R", "R", "D", "B", "N", "e", "t", "L", "a", "m", "b", "d", "a">>}
                   => kw.body_block = "RRDBNet_arch.RRDB"
            /\ passed("additive_mode", kw.additive_mode, "'not'")
            /\ passed("output_mode", kw.output_mode, "'hq_only'")
            /\ passed("gc", kw.growth_channels, "32")
            /\ passed("initial_stride", kw.initial_stride, "1")

\* an RRDBNetLambda generator built with gc present and not 32, additive_mode absent
C9_Witness ==
    /\ call.fn = "define_G" /\ outcome = "returned"
    /\ call.opt_net.which_model_G = G_id.RRDBNetLambda
    /\ "gc" \in DOMAIN call.opt_net /\ call.opt_net["gc"] # "32"
    /\ "additive_mode" \notin DOMAIN call.opt_net
    /\ net.kwargs.growth_channels = call.opt_net["gc"]
    /\ net.kwargs.additive_mode = "'not'"

\* C10: define_D_net returns a GradDiscWrapper around the discriminator exactly
\* when wrap is true and which_model_D is 'discriminator_vgg_128_gn'; otherwise the
\* constructed discriminator itself is returned.
C10_WrapOnlyVgg128Gn ==
    (DiscReached /\ outcome = "returned") =>
        LET wrap == IF call.fn = "define_fixed_D" THEN FALSE ELSE call.wrap
        IN  net.wrapped <=>
                (wrap /\ DiscOpt["which_model_D"]
                            = <<"d", "i", "s", "c", "r", "i", "m", "i", "n", "a", "t", "o", "r",
                                "_", "v", "g", "g", "_", "1", "2", "8", "_", "g", "n">>)

\* a wrapped discriminator was returned
C10_Witness ==
    /\ call.fn = "define_D_net" /\ outcome = "returned" /\ call.wrap /\ net.wrapped

=============================================================================
